---- MODULE Spec2Model ----
(***************************************************************************)
(* Model of the data preparation code of the notebook                      *)
(* examples/vision/ipynb/3D_image_classification.ipynb:                    *)
(*   - the frame-sequence windower (cell "Include those data points not    *)
(*     containing black images"),                                          *)
(*   - the volume pipeline normalize / resize_volume / process_scan and    *)
(*     the rotation augmentation,                                          *)
(*   - the train / validation split.                                       *)
(* The pipelines do not interact; each has its own specification over the  *)
(* same variables, the variables of the other pipelines staying idle.      *)
(***************************************************************************)
EXTENDS Integers, Sequences, FiniteSets, TLC

VARIABLES
    X,            \* list of frames, in the order of sorted(os.listdir(...))
    ws,           \* window size
    n,            \* loop variable of the list comprehension building temp_series
    temp_series,  \* the windows produced so far
    offs,         \* history: the value of n at which each window was produced
    wpc,          \* "idle" | "loop" | "done": position in the windowing cell
    volume,       \* the array a scan is held in: [shape, data]
    angle,        \* the angle random.choice picked in scipy_rotate
    vpc,          \* "idle" | "loaded" | "normalized" | "renormalized" |
                  \* "resized" | "rotated" | "train_out" | "val_out": what
                  \* was last applied to volume
    label         \* the label paired with the scan: 1 abnormal, 0 normal

wvars == <<X, ws, n, temp_series, offs, wpc>>

vvars == <<volume, angle, vpc, label>>

VARIABLES
    normal_scan_paths,    \* the files of MosMedData/CT-0
    abnormal_scan_paths,  \* the files of MosMedData/CT-23
    abnormal_scans,       \* np.array of the processed abnormal scans
    normal_scans,         \* np.array of the processed normal scans
    abnormal_labels,      \* np.array of a 1 for each abnormal scan
    normal_labels,        \* np.array of a 0 for each normal scan
    x_train,
    y_train,
    x_val,
    y_val,
    spc                   \* "idle" | "paths" | "loaded" | "split" | "error":
                          \* position in the dataset cell

svars == <<normal_scan_paths, abnormal_scan_paths, abnormal_scans, normal_scans,
           abnormal_labels, normal_labels, x_train, y_train, x_val, y_val, spc>>

VARIABLES
    files,   \* the files of path_to_TC in sorted order: an image or not
    fi,      \* number of files the loading loop has gone through
    tc_n,    \* the array of the windows
    saved,   \* the arrays written to amphan_tc.npy, one entry per np.save
    rpc      \* "idle" | "load" | "window" | "reshaped" | "done" | "error":
             \* position in the run of the frame-sequence cells

fvars == <<files, fi, tc_n, saved, rpc>>

vars == <<X, ws, n, temp_series, offs, wpc, volume, angle, vpc, label,
          normal_scan_paths, abnormal_scan_paths, abnormal_scans, normal_scans,
          abnormal_labels, normal_labels, x_train, y_train, x_val, y_val, spc,
          files, fi, tc_n, saved, rpc>>

----------------------------------------------------------------------------
(* Bounds of the model *)

\* pixels per frame (a frame of the notebook has width * height pixels)
NPix == 2
\* longest frame list of the exhaustive family
MaxLen == 4
\* largest window size of the exhaustive family
MaxWs == 2
\* largest number of scans in a class directory
MaxScans == 72
\* number of voxel values a volume is followed by
NVox == 2
\* the small dimensions 1..MaxDim a volume shape is drawn from
MaxDim == 3

(* Program constants *)

\* ws = 6
WS == 6
\* min = -1000, max = 400 in normalize
min == -1000
max == 400
\* width = 64, height = 64 of the frames (the names width and height are
\* those of locals of resize_volume below)
frame_width == 64
frame_height == 64
\* the number of windows in tc_n.reshape(222, ws, width, height, 1)
reshape_windows == 222
\* the slice bound 70 of the split
split_at == 70
\* the desired shape in resize_volume
desired_depth == 64
desired_width == 128
desired_height == 128

----------------------------------------------------------------------------
(* Frames *)

\* grey levels a pixel takes in the model (cv2.imread(..., 0) yields 0..255)
PixVals == {0, 255}

Frames == [1..NPix -> PixVals]

BlackFrame == [p \in 1..NPix |-> 0]
WhiteFrame == [p \in 1..NPix |-> 255]
\* a frame that has a zero pixel and a non-zero pixel
DimFrame == [p \in 1..NPix |-> IF p = 1 THEN 255 ELSE 0]

\* a variant that tests for white instead of black pixels
is_completely_black_white(image) == \A p \in DOMAIN image : image[p] = 255

\* np.all(image == 0)
is_completely_black(image) == \A p \in DOMAIN image : image[p] = 0

----------------------------------------------------------------------------
(* Python list helpers *)

Min2(a, b) == IF a < b THEN a ELSE b
Max2(a, b) == IF a > b THEN a ELSE b

\* s[a:b] for 0 <= a, with Python's clamping of the bounds to len(s);
\* offsets are 0-based as in the source
Slice(s, a, b) ==
    LET lo == Min2(a, Len(s))
        hi == Max2(lo, Min2(b, Len(s)))
    IN  [i \in 1..(hi - lo) |-> s[lo + i]]

\* any(is_completely_black(img) for img in w)
AnyBlack(w) == \E i \in 1..Len(w) : is_completely_black(w[i])

\* a variant whose range ends at the last full window
RangeStop_full(xs, w) == Len(xs) - w + 1

\* the stop value of range(0, len(X)-(2*ws)+1)
RangeStop(xs, w) == Len(xs) - (2 * w) + 1

----------------------------------------------------------------------------
(* Frame lists the windower is run on *)

SeqsUpTo(S, k) == UNION {[1..m -> S] : m \in 0..k}

\* every frame list up to MaxLen, every window size up to MaxWs
SmallInputs == {<<xs, w>> : xs \in SeqsUpTo(Frames, MaxLen), w \in 1..MaxWs}

\* 10 sequential frames of which only index 4 is entirely zero, window size 3
\* (0-based index 4 is position 5 of the sequence)
ExampleLists ==
    {xs \in [1..10 -> {BlackFrame, DimFrame, WhiteFrame}] :
        \A i \in 1..10 : (xs[i] = BlackFrame) <=> (i = 5)}
ExampleInputs == {<<xs, 3>> : xs \in ExampleLists}

\* lists around the length 2*ws with the notebook's window size
LongInputs ==
    {<<xs, WS>> : xs \in UNION {[1..m -> {BlackFrame, WhiteFrame}] :
                                   m \in (2 * WS - 1)..(2 * WS + 1)}}

WinInputs == SmallInputs \cup ExampleInputs \cup LongInputs

----------------------------------------------------------------------------
(* The windowing cell *)

\* the variables of the volume pipeline when it is not run
IdleVol ==
    /\ volume = [shape |-> <<>>, data |-> <<>>]
    /\ angle = 0
    /\ vpc = "idle"
    /\ label = 0

\* an array not yet bound
Unbound == [shape |-> <<>>, items |-> <<>>]

\* the variables of the dataset cell when it is not run
IdleSplit ==
    /\ normal_scan_paths = <<>>
    /\ abnormal_scan_paths = <<>>
    /\ abnormal_scans = Unbound
    /\ normal_scans = Unbound
    /\ abnormal_labels = Unbound
    /\ normal_labels = Unbound
    /\ x_train = Unbound
    /\ y_train = Unbound
    /\ x_val = Unbound
    /\ y_val = Unbound
    /\ spc = "idle"

\* the variables of the run of the frame-sequence cells when it is not made
IdleRun ==
    /\ files = <<>>
    /\ fi = 0
    /\ tc_n = Unbound
    /\ saved = <<>>
    /\ rpc = "idle"

\* the variables of the windowing cell when it is not run
IdleWin ==
    /\ IdleRun
    /\ X = <<>>
    /\ ws = WS
    /\ n = 0
    /\ temp_series = <<>>
    /\ offs = <<>>
    /\ wpc = "idle"

InitWin ==
    /\ \E in \in WinInputs : X = in[1] /\ ws = in[2]
    /\ n = 0
    /\ temp_series = <<>>
    /\ offs = <<>>
    /\ wpc = "loop"
    /\ IdleRun
    /\ IdleVol
    /\ IdleSplit

\* one iteration of
\*   [X[n:n+ws] for n in range(0, len(X)-(2*ws)+1)
\*      if not any(is_completely_black(img) for img in X[n:n+ws])]
WindowStep ==
    /\ wpc = "loop"
    /\ n < RangeStop(X, ws)
    /\ IF ~AnyBlack(Slice(X, n, n + ws))
       THEN /\ temp_series' = Append(temp_series, Slice(X, n, n + ws))
            /\ offs' = Append(offs, n)
       ELSE UNCHANGED <<temp_series, offs>>
    /\ n' = n + 1
    /\ UNCHANGED <<X, ws, wpc>>
    /\ UNCHANGED vvars
    /\ UNCHANGED svars
    /\ UNCHANGED fvars

\* the range is exhausted: temp_series is bound
WindowDone ==
    /\ wpc = "loop"
    /\ ~(n < RangeStop(X, ws))
    /\ wpc' = "done"
    /\ UNCHANGED <<X, ws, n, temp_series, offs>>
    /\ UNCHANGED vvars
    /\ UNCHANGED svars
    /\ UNCHANGED fvars

NextWin == WindowStep \/ WindowDone

SpecWin == InitWin /\ [][NextWin]_vars

----------------------------------------------------------------------------
(* Voxel values: exact rationals <<numerator, denominator>>, denominator  *)
(* positive, in lowest terms.  The rounding of the float64 and float32    *)
(* arithmetic of numpy is not modelled.                                   *)

Abs(a) == IF a < 0 THEN -a ELSE a

RECURSIVE GCD(_, _)
GCD(a, b) == IF b = 0 THEN a ELSE GCD(b, a % b)

\* the rational a / b, b # 0
Rat(a, b) ==
    LET g == GCD(Abs(a), Abs(b))
        sgn == IF b < 0 THEN -1 ELSE 1
    IN  <<sgn * (a \div g), sgn * (b \div g)>>

\* the rational of an integer
RInt(k) == <<k, 1>>

RAdd(x, y) ==
    LET g == GCD(x[2], y[2])
    IN  Rat(x[1] * (y[2] \div g) + y[1] * (x[2] \div g), (x[2] \div g) * y[2])
RNeg(x) == <<-x[1], x[2]>>
RSub(x, y) == RAdd(x, RNeg(y))
RMul(x, y) ==
    LET a == Rat(x[1], y[2])
        b == Rat(y[1], x[2])
    IN  <<a[1] * b[1], a[2] * b[2]>>
\* x / y, y # 0
RDiv(x, y) == RMul(x, Rat(y[2], y[1]))
RLt(x, y) ==
    LET g == GCD(x[2], y[2])
    IN  x[1] * (y[2] \div g) < y[1] * (x[2] \div g)
RLe(x, y) == ~RLt(y, x)

\* the least and the greatest value of a non-empty set of rationals
RMin(S) == CHOOSE x \in S : \A y \in S : RLe(x, y)
RMax(S) == CHOOSE x \in S : \A y \in S : RLe(y, x)

\* int(round(x)) of Python: round half to even
PyRound(x) ==
    LET q == x[1] \div x[2]
        r == x[1] - q * x[2]
    IN  IF 2 * r < x[2] THEN q
        ELSE IF 2 * r > x[2] THEN q + 1
        ELSE IF q % 2 = 0 THEN q ELSE q + 1

----------------------------------------------------------------------------
(* Volumes.  An array is [shape, data]: shape is its numpy shape, data    *)
(* lists the values its voxels take (NVox of them for a loaded scan); the  *)
(* voxels themselves are not enumerated, a resized scan has 128*128*64.    *)

\* dimensions of a loaded scan
Dims == (1..MaxDim) \cup {50, 100, 128}

Shapes == {<<w, h, d>> : w \in Dims, h \in Dims, d \in Dims}

\* raw intensities (Hounsfield units) met in a loaded scan
RawVals == {RInt(-1200), RInt(-1000), RInt(-300), RInt(400), RInt(500)}

\* scan.get_fdata() of read_nifti_file
LoadedVolumes == {[shape |-> sh, data |-> d] : sh \in Shapes, d \in [1..NVox -> RawVals]}

\* a variant of the clipping that forgets the upper bound
ClipVoxel_noupper(v) == IF RLt(v, RInt(min)) THEN RInt(min) ELSE v

\* volume[volume < min] = min ; volume[volume > max] = max
ClipVoxel(v) ==
    IF RLt(v, RInt(min)) THEN RInt(min)
    ELSE IF RLt(RInt(max), v) THEN RInt(max)
    ELSE v

\* a variant of the rescaling that forgets the division
ScaleVoxel_undivided(v) == RSub(v, RInt(min))

\* (volume - min) / (max - min)
ScaleVoxel(v) == RDiv(RSub(v, RInt(min)), RInt(max - min))

\* def normalize(volume)
normalize(vol) ==
    [shape |-> vol.shape,
     data  |-> [i \in DOMAIN vol.data |-> ScaleVoxel(ClipVoxel(vol.data[i]))]]

\* the values of the voxels of an array
Values(img) == {img.data[i] : i \in DOMAIN img.data}

\* ndimage.rotate samples the cubic spline (order=3 by default) through the
\* voxels of each plane of axes (0, 1) at the rotated positions.  By 90
\* degrees without reshaping, output voxel (i, j) samples position
\* (j + (a-b)/2, (a+b-2)/2 - i) of an a x b plane: grid points when a - b is
\* even, positions half way between voxels when a - b is odd, the latter
\* inside the plane only if both a and b are at least 2.  By the other
\* angles the positions are off the grid.  Between voxels of different value
\* the spline leaves their range: through 0, 1, 1 it takes 35/32 half way
\* between the two voxels of value 1.
SplineOvershoots(ang, a, b) ==
    IF ang = 90 THEN (a - b) % 2 = 1 /\ Min2(a, b) >= 2
    ELSE Max2(a, b) >= 3

\* positions sampled outside the input are filled with cval = 0.0
\* (mode='constant')
CvalAppears(ang, a, b) ==
    IF ang = 90 THEN a # b ELSE Max2(a, b) >= 2

\* the values a voxel of the rotated array may take
RotatedValues(img, ang) ==
    LET vals == Values(img)
        lo == RMin(vals)
        hi == RMax(vals)
        over == RMul(RSub(hi, lo), <<3, 32>>)
    IN  vals
        \cup (IF CvalAppears(ang, img.shape[1], img.shape[2])
              THEN {RInt(0)} ELSE {})
        \cup (IF SplineOvershoots(ang, img.shape[1], img.shape[2])
              THEN {RSub(lo, over), RAdd(hi, over)} ELSE {})

\* a variant of ndimage.rotate(img, ang, reshape=True): by 90 degrees the
\* first two axes are exchanged, by the other angles the plane grows
ndimage_rotate_reshape(img, ang) ==
    {[shape |-> IF ang = 90
                THEN <<img.shape[2], img.shape[1], img.shape[3]>>
                ELSE <<img.shape[1] + 1, img.shape[2] + 1, img.shape[3]>>,
      data |-> d] : d \in [DOMAIN img.data -> RotatedValues(img, ang)]}

\* ndimage.rotate(img, ang, reshape=False): the arrays it may return
ndimage_rotate(img, ang) ==
    {[shape |-> img.shape, data |-> d] :
        d \in [DOMAIN img.data -> RotatedValues(img, ang)]}

\* ndimage.zoom(img, zoom, order=1): the output shape is
\* int(round(size * factor)) on each axis; every output voxel is a linear
\* interpolation of the neighbouring input voxels, the values followed are
\* those of the input voxels
ndimage_zoom(img, zoom) ==
    [shape |-> [ax \in 1..3 |-> PyRound(RMul(RInt(img.shape[ax]), zoom[ax]))],
     data  |-> img.data]

\* def resize_volume(img): the arrays it may return
resize_volume(img) ==
    LET current_depth == img.shape[3]
        current_width == img.shape[1]
        current_height == img.shape[2]
        depth == Rat(current_depth, desired_depth)
        width == Rat(current_width, desired_width)
        height == Rat(current_height, desired_height)
        depth_factor == RDiv(RInt(1), depth)
        width_factor == RDiv(RInt(1), width)
        height_factor == RDiv(RInt(1), height)
    IN  {ndimage_zoom(r, <<width_factor, height_factor, depth_factor>>) :
            r \in ndimage_rotate(img, 90)}

\* angles = [-20, -10, -5, 5, 10, 20]
angles == {-20, -10, -5, 5, 10, 20}

\* a variant of the clamp that forgets the lower bound
ClampVoxel_nolower(v) == IF RLt(RInt(1), v) THEN RInt(1) ELSE v

\* volume[volume < 0] = 0 ; volume[volume > 1] = 1
ClampVoxel(v) ==
    IF RLt(v, RInt(0)) THEN RInt(0)
    ELSE IF RLt(RInt(1), v) THEN RInt(1)
    ELSE v

\* scipy_rotate(volume) with the angle random.choice picked
scipy_rotate(vol, ang) ==
    {[shape |-> r.shape,
      data  |-> [i \in DOMAIN r.data |-> ClampVoxel(r.data[i])]] :
        r \in ndimage_rotate(vol, ang)}

\* a variant that inserts the new axis in front
tf_expand_dims_front(vol, axis) ==
    [shape |-> <<1>> \o vol.shape, data |-> vol.data]

\* tf.expand_dims(vol, axis): an axis of size 1 is inserted at index axis
\* (0-based), the values are kept
tf_expand_dims(vol, axis) ==
    [shape |-> SubSeq(vol.shape, 1, axis) \o <<1>>
               \o SubSeq(vol.shape, axis + 1, Len(vol.shape)),
     data  |-> vol.data]

\* the statements of train_preprocessing that follow volume = rotate(volume)
train_expand(vol, lab) == <<tf_expand_dims(vol, 3), lab>>

\* def validation_preprocessing(volume, label)
validation_preprocessing(vol, lab) == <<tf_expand_dims(vol, 3), lab>>

----------------------------------------------------------------------------
(* The volume pipeline *)

InitVol ==
    /\ volume \in LoadedVolumes
    /\ angle = 0
    /\ vpc = "loaded"
    /\ label \in {0, 1}
    /\ IdleWin
    /\ IdleSplit

\* process_scan: volume = normalize(volume)
Normalize ==
    /\ vpc = "loaded"
    /\ volume' = normalize(volume)
    /\ vpc' = "normalized"
    /\ UNCHANGED <<angle, label>>
    /\ UNCHANGED wvars
    /\ UNCHANGED fvars
    /\ UNCHANGED svars

\* normalize applied to an array normalize returned
NormalizeAgain ==
    /\ vpc = "normalized"
    /\ volume' = normalize(volume)
    /\ vpc' = "renormalized"
    /\ UNCHANGED <<angle, label>>
    /\ UNCHANGED wvars
    /\ UNCHANGED fvars
    /\ UNCHANGED svars

\* process_scan: volume = resize_volume(volume); return volume
ResizeVolume ==
    /\ vpc = "normalized"
    /\ volume' \in resize_volume(volume)
    /\ vpc' = "resized"
    /\ UNCHANGED <<angle, label>>
    /\ UNCHANGED wvars
    /\ UNCHANGED fvars
    /\ UNCHANGED svars

\* rotate(volume) on a scan of the training set
Rotate ==
    /\ vpc = "resized"
    /\ \E ang \in angles :
          /\ angle' = ang
          /\ volume' \in scipy_rotate(volume, ang)
    /\ vpc' = "rotated"
    /\ UNCHANGED label
    /\ UNCHANGED wvars
    /\ UNCHANGED fvars
    /\ UNCHANGED svars

\* train_preprocessing after its call of rotate:
\* volume = tf.expand_dims(volume, axis=3); return volume, label
TrainPreprocessing ==
    /\ vpc = "rotated"
    /\ volume' = train_expand(volume, label)[1]
    /\ label' = train_expand(volume, label)[2]
    /\ vpc' = "train_out"
    /\ UNCHANGED angle
    /\ UNCHANGED wvars
    /\ UNCHANGED fvars
    /\ UNCHANGED svars

\* validation_preprocessing(volume, label) on a scan of the validation set
ValidationPreprocessing ==
    /\ vpc = "resized"
    /\ volume' = validation_preprocessing(volume, label)[1]
    /\ label' = validation_preprocessing(volume, label)[2]
    /\ vpc' = "val_out"
    /\ UNCHANGED angle
    /\ UNCHANGED wvars
    /\ UNCHANGED fvars
    /\ UNCHANGED svars

NextVol ==
    \/ Normalize \/ NormalizeAgain \/ ResizeVolume \/ Rotate
    \/ TrainPreprocessing \/ ValidationPreprocessing

SpecVol == InitVol /\ [][NextVol]_vars

----------------------------------------------------------------------------
(* The dataset cell: arrays of scans and labels, and the split *)

\* the array process_scan returns for a file: every scan has the desired
\* shape; the scan is identified by the file it was read from
ScanOf(path) == [of |-> path]
ScanShape == <<desired_width, desired_height, desired_depth>>

\* np.array(items) for a list of arrays of shape itemshape: an empty list
\* gives an array of shape (0,)
NpArray(items, itemshape) ==
    [shape |-> IF Len(items) = 0 THEN <<0>> ELSE <<Len(items)>> \o itemshape,
     items |-> items]

\* len(a): the size of the first axis
NpLen(a) == a.shape[1]

\* a variant of the slice that keeps one item less
NpSliceTo_short(a, k) ==
    LET m == Min2(k - 1, Len(a.items))
    IN  [shape |-> <<m>> \o Tail(a.shape), items |-> SubSeq(a.items, 1, m)]

\* a[:k] along the first axis, k >= 0
NpSliceTo(a, k) ==
    LET m == Min2(k, Len(a.items))
    IN  [shape |-> <<m>> \o Tail(a.shape), items |-> SubSeq(a.items, 1, m)]

\* a[k:] along the first axis, k >= 0
NpSliceFrom(a, k) ==
    LET m == Min2(k, Len(a.items))
    IN  [shape |-> <<Len(a.items) - m>> \o Tail(a.shape),
         items |-> SubSeq(a.items, m + 1, Len(a.items))]

\* np.concatenate((a, b), axis=0) raises ValueError unless a and b have the
\* same number of dimensions and the same sizes on the other axes
CanConcatenate(a, b) ==
    /\ Len(a.shape) = Len(b.shape)
    /\ Tail(a.shape) = Tail(b.shape)

\* np.concatenate((a, b), axis=0)
NpConcatenate(a, b) ==
    [shape |-> <<a.shape[1] + b.shape[1]>> \o Tail(a.shape),
     items |-> a.items \o b.items]

\* the files of a class directory
PathsOf(dir, k) == [i \in 1..k |-> <<dir, i>>]

InitSplit ==
    /\ \E k0 \in 0..MaxScans, k1 \in 0..MaxScans :
          /\ normal_scan_paths = PathsOf("CT-0", k0)
          /\ abnormal_scan_paths = PathsOf("CT-23", k1)
    /\ abnormal_scans = Unbound
    /\ normal_scans = Unbound
    /\ abnormal_labels = Unbound
    /\ normal_labels = Unbound
    /\ x_train = Unbound
    /\ y_train = Unbound
    /\ x_val = Unbound
    /\ y_val = Unbound
    /\ spc = "paths"
    /\ IdleWin
    /\ IdleVol

\* abnormal_scans = np.array([process_scan(path) for path in ...]) ...
\* normal_labels = np.array([0 for _ in range(len(normal_scans))])
LoadScans ==
    /\ spc = "paths"
    /\ abnormal_scans' =
          NpArray([i \in DOMAIN abnormal_scan_paths |->
                      ScanOf(abnormal_scan_paths[i])], ScanShape)
    /\ normal_scans' =
          NpArray([i \in DOMAIN normal_scan_paths |->
                      ScanOf(normal_scan_paths[i])], ScanShape)
    /\ abnormal_labels' = NpArray([i \in 1..NpLen(abnormal_scans') |-> 1], <<>>)
    /\ normal_labels' = NpArray([i \in 1..NpLen(normal_scans') |-> 0], <<>>)
    /\ spc' = "loaded"
    /\ UNCHANGED <<normal_scan_paths, abnormal_scan_paths,
                   x_train, y_train, x_val, y_val>>
    /\ UNCHANGED wvars
    /\ UNCHANGED fvars
    /\ UNCHANGED vvars

\* the four np.concatenate calls of the split can all be evaluated
SplitDefined ==
    /\ CanConcatenate(NpSliceTo(abnormal_scans, split_at),
                      NpSliceTo(normal_scans, split_at))
    /\ CanConcatenate(NpSliceTo(abnormal_labels, split_at),
                      NpSliceTo(normal_labels, split_at))
    /\ CanConcatenate(NpSliceFrom(abnormal_scans, split_at),
                      NpSliceFrom(normal_scans, split_at))
    /\ CanConcatenate(NpSliceFrom(abnormal_labels, split_at),
                      NpSliceFrom(normal_labels, split_at))

\* a variant of the split that builds y_val with the normal labels first
Split_val_labels_swapped ==
    /\ spc = "loaded"
    /\ SplitDefined
    /\ x_train' = NpConcatenate(NpSliceTo(abnormal_scans, split_at),
                                NpSliceTo(normal_scans, split_at))
    /\ y_train' = NpConcatenate(NpSliceTo(abnormal_labels, split_at),
                                NpSliceTo(normal_labels, split_at))
    /\ x_val' = NpConcatenate(NpSliceFrom(abnormal_scans, split_at),
                              NpSliceFrom(normal_scans, split_at))
    /\ y_val' = NpConcatenate(NpSliceFrom(normal_labels, split_at),
                              NpSliceFrom(abnormal_labels, split_at))
    /\ spc' = "split"
    /\ UNCHANGED <<normal_scan_paths, abnormal_scan_paths, abnormal_scans,
                   normal_scans, abnormal_labels, normal_labels>>
    /\ UNCHANGED wvars
    /\ UNCHANGED fvars
    /\ UNCHANGED vvars

\* x_train = np.concatenate((abnormal_scans[:70], normal_scans[:70]), axis=0)
\* ... y_val = np.concatenate((abnormal_labels[70:], normal_labels[70:]), axis=0)
Split ==
    /\ spc = "loaded"
    /\ SplitDefined
    /\ x_train' = NpConcatenate(NpSliceTo(abnormal_scans, split_at),
                                NpSliceTo(normal_scans, split_at))
    /\ y_train' = NpConcatenate(NpSliceTo(abnormal_labels, split_at),
                                NpSliceTo(normal_labels, split_at))
    /\ x_val' = NpConcatenate(NpSliceFrom(abnormal_scans, split_at),
                              NpSliceFrom(normal_scans, split_at))
    /\ y_val' = NpConcatenate(NpSliceFrom(abnormal_labels, split_at),
                              NpSliceFrom(normal_labels, split_at))
    /\ spc' = "split"
    /\ UNCHANGED <<normal_scan_paths, abnormal_scan_paths, abnormal_scans,
                   normal_scans, abnormal_labels, normal_labels>>
    /\ UNCHANGED wvars
    /\ UNCHANGED fvars
    /\ UNCHANGED vvars

\* the first np.concatenate of the split raises ValueError: the cell stops,
\* x_train, y_train, x_val and y_val stay unbound
SplitRaises ==
    /\ spc = "loaded"
    /\ ~CanConcatenate(NpSliceTo(abnormal_scans, split_at),
                       NpSliceTo(normal_scans, split_at))
    /\ spc' = "error"
    /\ UNCHANGED <<normal_scan_paths, abnormal_scan_paths, abnormal_scans,
                   normal_scans, abnormal_labels, normal_labels,
                   x_train, y_train, x_val, y_val>>
    /\ UNCHANGED wvars
    /\ UNCHANGED fvars
    /\ UNCHANGED vvars

NextSplit == LoadScans \/ Split \/ SplitRaises

SpecSplit == InitSplit /\ [][NextSplit]_vars

----------------------------------------------------------------------------
(* The run of the frame-sequence cells, from the loading loop to np.save *)

\* a file cv2.imread decodes; frame stands for the image resized to
\* (width, height)
ImageFile(f) == [ok |-> TRUE, frame |-> f]

\* a file cv2.imread cannot decode: it returns None
MalformedFile == [ok |-> FALSE, frame |-> <<>>]

\* a list of k image files, white frames but for black frames at the
\* positions of blacks
ImageFiles(k, blacks) ==
    [i \in 1..k |-> ImageFile(IF i \in blacks THEN BlackFrame ELSE WhiteFrame)]

\* the file at position bad replaced by a malformed one (bad = 0: none)
WithMalformed(fs, bad) ==
    [i \in 1..Len(fs) |-> IF i = bad THEN MalformedFile ELSE fs[i]]

\* the least number of clean frames that gives reshape_windows windows
FullLen == reshape_windows + 2 * WS - 1

\* directories of about FullLen files: without and with a black first
\* frame, without and with a malformed first, middle or last file
RunFiles ==
    {WithMalformed(ImageFiles(k, blacks), bad) :
        k \in (FullLen - 1)..(FullLen + 1),
        blacks \in {{}, {1}},
        bad \in {0, 1, WS, FullLen - 1}}

\* the number of elements of an array of the given shape
RECURSIVE Size(_)
Size(shape) == IF shape = <<>> THEN 1 ELSE shape[1] * Size(Tail(shape))

InitRun ==
    /\ files \in RunFiles
    /\ fi = 0
    /\ tc_n = Unbound
    /\ saved = <<>>
    /\ rpc = "load"
    /\ X = <<>>
    /\ ws = WS
    /\ n = 0
    /\ temp_series = <<>>
    /\ offs = <<>>
    /\ wpc = "idle"
    /\ IdleVol
    /\ IdleSplit

\* one iteration of the loading loop:
\* im = cv2.imread(s_p, 0); X.append(cv2.resize(im, (width, height), ...))
LoadFrame ==
    /\ rpc = "load"
    /\ fi < Len(files)
    /\ files[fi + 1].ok
    /\ X' = Append(X, files[fi + 1].frame)
    /\ fi' = fi + 1
    /\ UNCHANGED <<files, tc_n, saved, rpc>>
    /\ UNCHANGED <<ws, n, temp_series, offs, wpc>>
    /\ UNCHANGED vvars
    /\ UNCHANGED svars

\* a variant of the loop that skips a file cv2.imread cannot decode
LoadFrameRaises_skip ==
    /\ rpc = "load"
    /\ fi < Len(files)
    /\ ~files[fi + 1].ok
    /\ fi' = fi + 1
    /\ UNCHANGED <<files, tc_n, saved, rpc>>
    /\ UNCHANGED wvars
    /\ UNCHANGED vvars
    /\ UNCHANGED svars

\* cv2.imread returns None and cv2.resize(None, ...) raises cv2.error: the
\* run stops
LoadFrameRaises ==
    /\ rpc = "load"
    /\ fi < Len(files)
    /\ ~files[fi + 1].ok
    /\ rpc' = "error"
    /\ UNCHANGED <<files, fi, tc_n, saved>>
    /\ UNCHANGED wvars
    /\ UNCHANGED vvars
    /\ UNCHANGED svars

\* the loop is over: the cell of the list comprehension starts
LoadDone ==
    /\ rpc = "load"
    /\ fi = Len(files)
    /\ rpc' = "window"
    /\ wpc' = "loop"
    /\ UNCHANGED <<files, fi, tc_n, saved>>
    /\ UNCHANGED <<X, ws, n, temp_series, offs>>
    /\ UNCHANGED vvars
    /\ UNCHANGED svars

\* np.array(temp_series): windows of ws frames of shape (height, width)
WindowArray(series) ==
    NpArray(series, <<ws, frame_height, frame_width>>)

\* tc_n / 255.0
Scaled(a) ==
    [shape |-> a.shape,
     items |-> [i \in DOMAIN a.items |->
                  [j \in DOMAIN a.items[i] |->
                     [p \in DOMAIN a.items[i][j] |-> Rat(a.items[i][j][p], 255)]]]]

\* the shape asked of tc_n.reshape(222, ws, width, height, 1)
ReshapeTarget == <<reshape_windows, ws, frame_width, frame_height, 1>>

\* tc_n = np.array(temp_series); tc_n = tc_n / 255.0;
\* tc_n = tc_n.reshape(222, ws, width, height, 1)
Reshape ==
    /\ rpc = "window"
    /\ wpc = "done"
    /\ Size(WindowArray(temp_series).shape) = Size(ReshapeTarget)
    /\ tc_n' = [shape |-> ReshapeTarget,
                items |-> Scaled(WindowArray(temp_series)).items]
    /\ rpc' = "reshaped"
    /\ UNCHANGED <<files, fi, saved>>
    /\ UNCHANGED wvars
    /\ UNCHANGED vvars
    /\ UNCHANGED svars

\* reshape raises ValueError, the array has another size: the run stops
\* with tc_n bound to the scaled array
ReshapeRaises ==
    /\ rpc = "window"
    /\ wpc = "done"
    /\ Size(WindowArray(temp_series).shape) # Size(ReshapeTarget)
    /\ tc_n' = Scaled(WindowArray(temp_series))
    /\ rpc' = "error"
    /\ UNCHANGED <<files, fi, saved>>
    /\ UNCHANGED wvars
    /\ UNCHANGED vvars
    /\ UNCHANGED svars

\* np.save('amphan_tc.npy', tc_n)
Save ==
    /\ rpc = "reshaped"
    /\ saved' = Append(saved, tc_n)
    /\ rpc' = "done"
    /\ UNCHANGED <<files, fi, tc_n>>
    /\ UNCHANGED wvars
    /\ UNCHANGED vvars
    /\ UNCHANGED svars

NextRun ==
    \/ LoadFrame \/ LoadFrameRaises \/ LoadDone
    \/ WindowStep \/ WindowDone
    \/ Reshape \/ ReshapeRaises \/ Save

SpecRun == InitRun /\ [][NextRun]_vars

----------------------------------------------------------------------------
(* Properties of the windower *)

\* a degenerate frame: every pixel equals 0
Degenerate(f) == \A p \in 1..NPix : f[p] = 0

\* the W frames starting at 0-based offset k exist and none is degenerate
CleanAt(k) ==
    /\ k >= 0
    /\ k + ws <= Len(X)
    /\ \A j \in 1..ws : ~Degenerate(X[k + j])

\* the contiguous run X[k], ..., X[k+W-1]
RunAt(k) == [j \in 1..ws |-> X[k + j]]

RECURSIVE CleanOffsetsFrom(_)
\* the offsets k, k+1, ... with a clean run, in increasing order
CleanOffsetsFrom(k) ==
    IF k + ws > Len(X) THEN <<>>
    ELSE (IF CleanAt(k) THEN <<k>> ELSE <<>>) \o CleanOffsetsFrom(k + 1)

C2_OneWindowPerCleanOffset ==
    wpc = "done" =>
        /\ offs = CleanOffsetsFrom(0)
        /\ Len(temp_series) = Len(offs)
        /\ \A i \in 1..Len(offs) : temp_series[i] = RunAt(offs[i])

C4_TruncatedOffsets ==
    /\ Len(offs) = Len(temp_series)
    /\ \A i \in 1..Len(offs) :
          /\ 0 <= offs[i]
          /\ offs[i] < Len(X) - 2 * ws + 1
          /\ temp_series[i] = RunAt(offs[i])
          /\ \A k \in (Len(X) - ws)..(Len(X) - 1) :
                k \notin offs[i]..(offs[i] + ws - 1)
    /\ Len(X) < 2 * ws - 1 => temp_series = <<>>

\* windows were produced although the final W frames are clean too, so that
\* further clean runs exist beyond the last offset used
C4_Witness ==
    /\ wpc = "done"
    /\ Len(temp_series) > 0
    /\ CleanAt(Len(X) - ws)
    /\ \A i \in 1..Len(offs) : offs[i] # Len(X) - ws

----------------------------------------------------------------------------
(* Properties of the volume pipeline *)

\* the value x lies in [0, 1]
InUnitRange(x) == 0 <= x[1] /\ x[1] <= x[2]

\* normalize has just been applied to a loaded scan
NormalizeStep == vpc = "loaded" /\ vpc' = "normalized"

\* normalize has just been applied to its own output
NormalizeAgainStep == vpc = "normalized" /\ vpc' = "renormalized"

\* resize_volume has just been applied
ResizeStep == vpc = "normalized" /\ vpc' = "resized"

\* the rotation augmentation has just been applied
RotateStep == vpc = "resized" /\ vpc' = "rotated"

\* C5: normalize (clip bounds low = -1000, high = 400) returns an array of
\* the same shape in which every value lies in [0, 1]; a voxel whose value
\* was <= low maps to 0, one whose value was >= high maps to 1, and a value
\* v in between maps to (v - low) / (high - low).
C5_NormalizeContract ==
    [][NormalizeStep =>
        /\ volume'.shape = volume.shape
        /\ DOMAIN volume'.data = DOMAIN volume.data
        /\ \A i \in DOMAIN volume.data :
              LET v == volume.data[i]
                  y == volume'.data[i]
              IN  /\ InUnitRange(y)
                  /\ RLe(v, RInt(-1000)) => y = RInt(0)
                  /\ RLe(RInt(400), v) => y = RInt(1)
                  /\ (RLt(RInt(-1000), v) /\ RLt(v, RInt(400))) =>
                        y[1] * 1400 * v[2] = (v[1] + 1000 * v[2]) * y[2]]_vars

\* a normalized scan with a voxel clipped to 0, a voxel clipped to 1 and a
\* voxel in between (-300 maps to 1/2)
C5_Witness ==
    /\ vpc = "normalized"
    /\ \E i \in DOMAIN volume.data : volume.data[i] = RInt(0)
    /\ \E i \in DOMAIN volume.data : volume.data[i] = <<1, 2>>

\* C6 (as stated): normalizing an already-normalized volume returns it
\* unchanged, normalize(normalize(v)) = normalize(v).
C6_Idempotent ==
    [][NormalizeAgainStep => volume' = volume]_vars

\* C6 (amended): normalize has fixed clip bounds -1000 and 400; applied to
\* an already-normalized volume it keeps the shape and maps every value x
\* of [0, 1] to (x + 1000) / 1400, a value of [5/7, 1001/1400], which
\* differs from x unless x = 1000/1399.
C6_SecondNormalizeRescales ==
    [][NormalizeAgainStep =>
        /\ volume'.shape = volume.shape
        /\ DOMAIN volume'.data = DOMAIN volume.data
        /\ \A i \in DOMAIN volume.data :
              LET x == volume.data[i]
                  y == volume'.data[i]
              IN  /\ InUnitRange(x)
                  /\ y[1] * 1400 * x[2] = (x[1] + 1000 * x[2]) * y[2]
                  /\ RLe(<<5, 7>>, y) /\ RLe(y, Rat(1001, 1400))
                  /\ (y = x) <=> (x = <<1000, 1399>>)]_vars

\* a twice normalized scan: the voxel that was 0 is 5/7, the voxel that was
\* 1 is 1001/1400
C6_Witness ==
    /\ vpc = "renormalized"
    /\ \E i \in DOMAIN volume.data : volume.data[i] = <<5, 7>>
    /\ \E i \in DOMAIN volume.data : volume.data[i] = Rat(1001, 1400)

\* C7: for every input shape (w, h, d) with positive dimensions, also with
\* a ratio to the target that is not an integer and with w # h,
\* resize_volume returns an array of shape exactly (128, 128, 64).
C7_ResizeShape ==
    [][ResizeStep => volume'.shape = <<128, 128, 64>>]_vars

\* a resized scan holding a value above 1: the spline left the range of the
\* voxels, which it does only for an input with w # h (w - h odd)
C7_Witness ==
    /\ vpc = "resized"
    /\ volume.shape = <<128, 128, 64>>
    /\ \E i \in DOMAIN volume.data : RLt(RInt(1), volume.data[i])

\* C8: process_scan (normalize, rotate by 90 degrees, resample) yields an
\* array of shape exactly (128, 128, 64) whose values all lie in [0, 1].
C8_ProcessScanUnitRange ==
    vpc = "resized" =>
        /\ volume.shape = <<128, 128, 64>>
        /\ \A i \in DOMAIN volume.data : InUnitRange(volume.data[i])

\* C9: for every input volume and every candidate angle the rotation
\* augmentation returns a volume whose values all lie in [0, 1] and whose
\* shape equals the input shape; the angle used is one of -20, -10, -5, 5,
\* 10, 20.
C9_RotateClampedSameShape ==
    [][RotateStep =>
        /\ angle' \in {-20, -10, -5, 5, 10, 20}
        /\ volume'.shape = volume.shape
        /\ \A i \in DOMAIN volume'.data : InUnitRange(volume'.data[i])]_vars

\* an augmented scan, rotated by -20 degrees, with voxels at both ends of
\* the range
C9_Witness ==
    /\ vpc = "rotated"
    /\ angle = -20
    /\ \E i \in DOMAIN volume.data : volume.data[i] = RInt(0)
    /\ \E i \in DOMAIN volume.data : volume.data[i] = RInt(1)

----------------------------------------------------------------------------
(* Properties of the split *)

\* the scans of the two classes, in the order of their directories
AbnormalExamples == [i \in DOMAIN abnormal_scan_paths |-> [of |-> abnormal_scan_paths[i]]]
NormalExamples == [i \in DOMAIN normal_scan_paths |-> [of |-> normal_scan_paths[i]]]

\* the first k items of a list (all of them if it has fewer) and the rest
FirstOf(s, k) == SubSeq(s, 1, IF Len(s) < k THEN Len(s) ELSE k)
RestOf(s, k) == SubSeq(s, (IF Len(s) < k THEN Len(s) ELSE k) + 1, Len(s))

\* the number of positions of s that hold e
Occurrences(s, e) == Cardinality({i \in DOMAIN s : s[i] = e})

\* the training set holds the first 70 examples of each class, the
\* validation set the remaining ones, in their original order; the two sets
\* are disjoint and together hold every example exactly once
SplitContents ==
    /\ x_train.items = FirstOf(AbnormalExamples, 70) \o FirstOf(NormalExamples, 70)
    /\ x_val.items = RestOf(AbnormalExamples, 70) \o RestOf(NormalExamples, 70)
    /\ \A i \in DOMAIN x_train.items : \A j \in DOMAIN x_val.items :
          x_train.items[i] # x_val.items[j]
    /\ \A i \in DOMAIN AbnormalExamples :
          Occurrences(x_train.items \o x_val.items, AbnormalExamples[i]) = 1
    /\ \A i \in DOMAIN NormalExamples :
          Occurrences(x_train.items \o x_val.items, NormalExamples[i]) = 1
    /\ Len(x_train.items) + Len(x_val.items)
          = Len(AbnormalExamples) + Len(NormalExamples)

\* C10 (as stated): for any two class example lists, of any lengths, the
\* split puts the first 70 examples of each class in the training set and
\* the remaining ones in the validation set, in their original order; the
\* two sets are disjoint and together hold every example exactly once.
C10_SplitAnyLengths ==
    /\ spc # "error"
    /\ spc = "split" => SplitContents

\* C10 (amended): the same for any two class example lists that are both
\* non-empty or both empty; when exactly one class is empty np.concatenate
\* raises on arrays of 1 and 4 dimensions and no split is produced.
C10_SplitNonEmptyClasses ==
    LET oneEmpty == (Len(abnormal_scan_paths) = 0) # (Len(normal_scan_paths) = 0)
    IN  /\ spc = "split" => (SplitContents /\ ~oneEmpty)
        /\ spc = "error" =>
              /\ oneEmpty
              /\ x_train = Unbound /\ y_train = Unbound
              /\ x_val = Unbound /\ y_val = Unbound

\* a split of a class with fewer than 70 scans and a class with more
C10_Witness ==
    /\ spc = "split"
    /\ Len(abnormal_scan_paths) = 3
    /\ Len(normal_scan_paths) = 72
    /\ Len(x_train.items) = 73
    /\ Len(x_val.items) = 2

\* the number of labels of value lab in an array of labels
LabelCount(y, lab) == Cardinality({i \in DOMAIN y.items : y.items[i] = lab})

\* the number of scans of each class
NAbnormal == Len(abnormal_scan_paths)
NNormal == Len(normal_scan_paths)

\* C11 (as stated): the training set holds the same number of positive and
\* negative examples only if both classes have at least 70 examples.
C11_BalancedOnlyIfSeventy ==
    (spc = "split" /\ LabelCount(y_train, 1) = LabelCount(y_train, 0)) =>
        (NAbnormal >= 70 /\ NNormal >= 70)

\* C11 (amended): the training set holds min(70, size) examples of each
\* class, no balancing correction is applied; it is class-balanced if both
\* classes have at least 70 examples, and otherwise exactly when the two
\* classes have the same number of examples.
C11_BalancedIffSeventyOrEqual ==
    spc = "split" =>
        /\ LabelCount(y_train, 1) = (IF NAbnormal < 70 THEN NAbnormal ELSE 70)
        /\ LabelCount(y_train, 0) = (IF NNormal < 70 THEN NNormal ELSE 70)
        /\ Len(y_train.items) = LabelCount(y_train, 1) + LabelCount(y_train, 0)
        /\ (LabelCount(y_train, 1) = LabelCount(y_train, 0)) <=>
              \/ NAbnormal >= 70 /\ NNormal >= 70
              \/ NAbnormal = NNormal

\* a balanced training set of two classes of 3 scans each
C11_Witness ==
    /\ spc = "split"
    /\ NAbnormal = 3
    /\ NNormal = 3
    /\ LabelCount(y_train, 1) = 3
    /\ LabelCount(y_train, 0) = 3

\* C12: the validation set holds the same number of abnormal (label 1) and
\* normal (label 0) examples, whatever numbers of scans the two class
\* directories hold.
C12_ValidationBalanced ==
    spc = "split" => LabelCount(y_val, 1) = LabelCount(y_val, 0)

\* C15: x_train and y_train have equal length, x_val and y_val have equal
\* length, and at every index the label is 1 exactly when the example came
\* from the abnormal class and 0 exactly when it came from the normal class.
C15_LabelsAligned ==
    /\ Len(x_train.items) = Len(y_train.items)
    /\ Len(x_val.items) = Len(y_val.items)
    /\ \A i \in DOMAIN x_train.items :
          /\ y_train.items[i] \in {0, 1}
          /\ (y_train.items[i] = 1) <=> (x_train.items[i].of[1] = "CT-23")
          /\ (y_train.items[i] = 0) <=> (x_train.items[i].of[1] = "CT-0")
    /\ \A i \in DOMAIN x_val.items :
          /\ y_val.items[i] \in {0, 1}
          /\ (y_val.items[i] = 1) <=> (x_val.items[i].of[1] = "CT-23")
          /\ (y_val.items[i] = 0) <=> (x_val.items[i].of[1] = "CT-0")

\* a split with examples of both classes in both sets
C15_Witness ==
    /\ spc = "split"
    /\ NAbnormal = 71
    /\ NNormal = 72
    /\ Len(y_train.items) = 140
    /\ Len(y_val.items) = 3

\* a step that enters the position pos of the volume pipeline
Enters(pos) == vpc # pos /\ vpc' = pos

\* C13: both preprocessing functions return the label unchanged;
\* validation_preprocessing leaves every voxel value unchanged and only
\* appends a channel axis of size 1, with no augmentation; train_preprocessing
\* applies the rotation augmentation and then appends the same channel axis.
C13_PreprocessingContract ==
    [][/\ Enters("val_out") =>
             /\ vpc = "resized"
             /\ label' = label
             /\ angle' = angle
             /\ volume'.data = volume.data
             /\ volume'.shape = volume.shape \o <<1>>
       /\ Enters("rotated") =>
             /\ vpc = "resized"
             /\ label' = label
             /\ angle' \in {-20, -10, -5, 5, 10, 20}
       /\ Enters("train_out") =>
             /\ vpc = "rotated"
             /\ label' = label
             /\ angle' = angle
             /\ volume'.data = volume.data
             /\ volume'.shape = volume.shape \o <<1>>]_vars

\* a preprocessed validation example of the abnormal class with the channel
\* axis and a voxel that is neither 0 nor 1
C13_Witness ==
    /\ vpc = "val_out"
    /\ label = 1
    /\ angle = 0
    /\ volume.shape = <<128, 128, 64, 1>>
    /\ \E i \in DOMAIN volume.data : volume.data[i] = <<1, 2>>

----------------------------------------------------------------------------
(* Properties of the run of the frame-sequence cells *)

\* the positions of the files cv2.imread cannot decode
Malformed == {i \in 1..Len(files) : ~files[i].ok}

\* every listed file was read and resized, in order, none skipped or
\* read twice
AllFilesRead ==
    /\ Malformed = {}
    /\ fi = Len(files)
    /\ X = [i \in 1..Len(files) |-> files[i].frame]

\* the run has stopped: no cell runs after the uncaught failure
Aborted == rpc = "error" /\ ~ENABLED NextRun

\* C14: amphan_tc.npy is written at most once, and only after every listed
\* file was read and resized and the windowed array was reshaped, which takes
\* exactly 222 windows; a malformed file or another window count aborts the
\* run, no file is skipped or retried and no partial dataset is written.
C14_FailFast ==
    /\ Len(saved) <= 1
    /\ Len(X) = fi /\ \A i \in 1..fi : files[i].ok /\ X[i] = files[i].frame
    /\ rpc \in {"reshaped", "done"} =>
          /\ AllFilesRead
          /\ wpc = "done"
          /\ Len(temp_series) = reshape_windows
          /\ tc_n.shape = <<reshape_windows, WS, frame_width, frame_height, 1>>
          /\ Len(tc_n.items) = reshape_windows
    /\ saved # <<>> => rpc = "done" /\ saved[1] = tc_n
    /\ rpc = "done" => Len(saved) = 1
    /\ Malformed # {} =>
          /\ rpc \in {"load", "error"}
          /\ \A i \in Malformed : fi < i
          /\ wpc = "idle"
    /\ (wpc = "done" /\ Len(temp_series) # reshape_windows) =>
          rpc \in {"window", "error"}
    /\ rpc = "error" => Aborted /\ saved = <<>>
    /\ (rpc = "load" /\ fi < Len(files) /\ ~files[fi + 1].ok) =>
          ~ENABLED LoadFrame /\ ~ENABLED LoadDone

\* the file is written from a directory whose first frame is black: 222
\* windows come out of 234 files
C14_Witness ==
    /\ rpc = "done"
    /\ Len(saved) = 1
    /\ Len(files) = FullLen + 1
    /\ is_completely_black(X[1])
    /\ Len(saved[1].items) = reshape_windows

====
